---------------------------- MODULE Spec2Model ----------------------------
(***************************************************************************)
(* git-submerge (src/src/main.rs): rewriting the history of a repository   *)
(* so that a submodule becomes an ordinary subdirectory.                   *)
(*                                                                         *)
(* Objects are content-addressed, so an object id is modelled by the       *)
(* object's content: two objects have the same id iff they are the same    *)
(* value.                                                                  *)
(*   blob    [blob |-> <<line, ...>>]                                      *)
(*   tree    a function  name -> [mode |-> m, id |-> object]               *)
(*   commit  [tree, parents, author, committer, message], and a gpgsig     *)
(*           field when the commit is signed                               *)
(***************************************************************************)
EXTENDS Integers, Sequences, FiniteSets, TLC

(* ------------------------------ exit codes ----------------------------- *)
E_SUCCESS == 0
E_NO_GIT_REPO == 1
E_FOUND_DANGLING_REFERENCES == 2
E_INVALID_COMMIT_ID == 3
E_INVALID_MAPPINGS == 4
E_DIRTY_WORKDIR == 5
E_SUBMODULE_FETCH_FAILED == 6
E_SUBMODULE_NOT_FOUND == 7
\* exit status of a Rust process that panicked (expect / panic! / map index)
E_PANIC == 101
\* no exit status yet: the process is running
RUNNING == -1

(* ------------------------------ file modes ----------------------------- *)
\* 0o160000, a gitlink
MODE_GITLINK == 57344
\* 0o040000, a subtree
MODE_TREE == 16384
\* 0o100644, a regular file: the type bits 0o100000 and the permissions 0o644
MODE_BLOB == 32768 + 420

(* -------------------------------- bounds ------------------------------- *)
\* commits in the parent repository
NumCommits == 3

(* ------------------------------- objects ------------------------------- *)
Blob(lines) == [blob |-> lines]

EmptyTree == [n \in {} |-> n]

Entry(mode, id) == [mode |-> mode, id |-> id]

\* TreeBuilder::insert
tb_insert(tree, name, entry) ==
    [n \in (DOMAIN tree) \cup {name} |-> IF n = name THEN entry ELSE tree[n]]

\* TreeBuilder::remove
tb_remove(tree, name) ==
    [n \in (DOMAIN tree) \ {name} |-> tree[n]]

\* Tree::get_path: the set holding the entry at path, empty when the path
\* does not exist in the tree (ErrorCode::NotFound, ErrorClass::Tree)
RECURSIVE get_path(_, _)
get_path(tree, path) ==
    IF path = <<>> \/ Head(path) \notin DOMAIN tree THEN {}
    ELSE IF Len(path) = 1 THEN {tree[Head(path)]}
    ELSE IF tree[Head(path)].mode # MODE_TREE THEN {}
    ELSE get_path(tree[Head(path)].id, Tail(path))

\* Index::read_tree: the tree flattened into index entries, one per
\* non-tree entry, each with its full path
RECURSIVE read_tree(_, _)
read_tree(tree, prefix) ==
    UNION { IF tree[n].mode = MODE_TREE
            THEN read_tree(tree[n].id, Append(prefix, n))
            ELSE {[path |-> Append(prefix, n), mode |-> tree[n].mode, id |-> tree[n].id]}
          : n \in DOMAIN tree }

\* Index::write_tree_to: the tree whose files are the index entries
RECURSIVE write_tree_to(_)
write_tree_to(index) ==
    [n \in {Head(e.path) : e \in index} |->
        LET here == {e \in index : Head(e.path) = n}
        IN  IF \E e \in here : Len(e.path) = 1
            THEN LET e == CHOOSE x \in here : Len(x.path) = 1
                 IN  Entry(e.mode, e.id)
            ELSE Entry(MODE_TREE,
                       write_tree_to({[e EXCEPT !.path = Tail(e.path)] : e \in here}))]


(* ------------------------- sequences and maps -------------------------- *)
Range(seq) == {seq[i] : i \in 1..Len(seq)}

\* HashMap::insert
insert(map, key, value) == (key :> value) @@ map

EmptyMap == [k \in {} |-> k]

(* ------------------------------- commits ------------------------------- *)
Commit(tree, parents, author, committer, message) ==
    [tree |-> tree, parents |-> parents, author |-> author,
     committer |-> committer, message |-> message]

\* the commits reachable from a set of tips through parent edges
RECURSIVE Ancestors(_)
Ancestors(tips) ==
    IF tips = {} THEN {}
    ELSE tips \cup Ancestors(UNION {Range(c.parents) : c \in tips})

(* ------------------------ the submodule repository --------------------- *)
SubTree1 == [f |-> Entry(MODE_BLOB, Blob(<<"v1">>))]

SubTree2 ==
    [f |-> Entry(MODE_BLOB, Blob(<<"v2">>)),
     d |-> Entry(MODE_TREE, [g |-> Entry(MODE_BLOB, Blob(<<"g">>))])]

Sub1 == Commit(SubTree1, <<>>, "carol", "carol", "s1")

\* a root commit without files, as `git commit --allow-empty` makes in a new
\* repository
Sub0 == Commit(EmptyTree, <<>>, "dave", "dave", "s0")

\* a merge of the two roots
Sub2 == Commit(SubTree2, <<Sub1, Sub0>>, "carol", "dave", "s2")

\* a commit with a header besides tree, parents, author, committer and
\* message: a GPG signature
Signed(commit, signature) ==
    [field \in DOMAIN commit \cup {"gpgsig"} |->
        IF field = "gpgsig" THEN signature ELSE commit[field]]

\* Sub2, signed
Sub2Signed == Signed(Sub2, "dave")

\* a submodule commit that the parent once referenced and that is no longer
\* in the submodule's history
SubX == Commit([f |-> Entry(MODE_BLOB, Blob(<<"vx">>))], <<>>, "carol", "carol", "sx")

\* submodule HEAD, branches and tags: a branch at Sub2, a tag at its signed twin
SubmoduleTips == {Sub2, Sub2Signed}

\* what a gitlink of the parent repository may point at
GitlinkTargets == {Sub1, Sub2, SubX}

(* ------------------------- the parent repository ----------------------- *)
\* where the submodule lives in the parent's tree
SubmoduleDirs == {<<"sub">>}

\* the name of the submodule's section in .gitmodules
section(name) == "submodule \"" \o name \o "\""

\* the tree that has entry at path and is otherwise tree
RECURSIVE WithEntryAt(_, _, _)
WithEntryAt(tree, path, entry) ==
    IF Len(path) = 1 THEN tb_insert(tree, Head(path), entry)
    ELSE tb_insert(tree, Head(path),
                   Entry(MODE_TREE,
                         WithEntryAt([other |-> Entry(MODE_BLOB, Blob(<<"o">>))],
                                     Tail(path), entry)))

\* what a parent commit has at the submodule's path
Kinds == {[kind |-> "none"], [kind |-> "dir"]}
            \cup {[kind |-> "gitlink", target |-> s] : s \in GitlinkTargets}

GitmodulesOf(dir, k) ==
    IF k.target = Sub1 THEN {<<section(dir[Len(dir)])>>}
    ELSE IF k.target = Sub2
    THEN {<<"# submodules", section("other"), section(dir[Len(dir)])>>}
    ELSE {}

\* the tree of the n-th parent commit
ParentTree(dir, n, k) ==
    LET base == [README |-> Entry(MODE_BLOB, Blob(<<"readme", ToString(n)>>))]
    IN  IF k.kind = "none" THEN base
        ELSE IF k.kind = "dir"
        THEN WithEntryAt(base, dir,
                 Entry(MODE_TREE, [old |-> Entry(MODE_BLOB, Blob(<<"old">>))]))
        ELSE LET linked == WithEntryAt(base, dir, Entry(MODE_GITLINK, k.target))
             IN  IF GitmodulesOf(dir, k) = {} THEN linked
                 ELSE tb_insert(linked, ".gitmodules",
                          Entry(MODE_BLOB, Blob(CHOOSE g \in GitmodulesOf(dir, k) : TRUE)))

\* the parents of the n-th commit, as indices of earlier commits: a root, a
\* child of the commit before it, or a merge of the two commits before it
ParentShapes(n) ==
    (IF n <= 2 THEN {<<>>} ELSE {})
      \cup (IF n >= 2 THEN {<<n - 1>>} ELSE {})
      \cup (IF n >= 3 THEN {<<n - 2, n - 1>>} ELSE {})

Shapes == {sh \in [1..NumCommits -> UNION {ParentShapes(n) : n \in 1..NumCommits}] :
              \A n \in 1..NumCommits : sh[n] \in ParentShapes(n)}

RECURSIVE MapSeq(_, _)
MapSeq(map, seq) ==
    IF seq = <<>> THEN <<>> ELSE <<map[Head(seq)]>> \o MapSeq(map, Tail(seq))

\* the first n commits of the history with the given shape and kinds
RECURSIVE History(_, _, _, _)
History(dir, shape, kinds, n) ==
    IF n = 0 THEN <<>>
    ELSE LET before == History(dir, shape, kinds, n - 1)
         IN  Append(before,
                    Commit(ParentTree(dir, n, kinds[n]), MapSeq(before, shape[n]),
                           "alice", "bob", "p" \o ToString(n)))

(* ----------------------------- tree editing ---------------------------- *)
IsCommit(object) == "parents" \in DOMAIN object

\* a tree, its subtrees and its blobs: what writing the tree leaves in the
\* object database (a gitlink's target is not an object of the tree)
RECURSIVE TreeObjects(_)
TreeObjects(tree) ==
    {tree} \cup UNION { IF tree[n].mode = MODE_TREE THEN TreeObjects(tree[n].id)
                        ELSE IF tree[n].mode = MODE_GITLINK THEN {}
                        ELSE {tree[n].id}
                      : n \in DOMAIN tree }

CommitObjects(commits) == commits \cup UNION {TreeObjects(c.tree) : c \in commits}

\* rewrite_submodule_history, the tree of a submodule commit with every
\* index entry moved under the submodule's directory
relocate(tree, dir) ==
    write_tree_to({[e EXCEPT !.path = dir \o e.path] : e \in read_tree(tree, <<>>)})

\* Ini::read_from: the sections of the file; comments are not kept
ini_read(lines) == SelectSeq(lines, LAMBDA l : SubSeq(l, 1, 1) # "#")

\* a delete that finds no section of that name
ini_delete_nothing(sections, name) == sections

\* Ini::delete
ini_delete(sections, name) == SelectSeq(sections, LAMBDA l : l # name)

\* the TreeBuilder after update_gitmodules
update_gitmodules(treebuilder, tree, submodule_path) ==
    IF ".gitmodules" \notin DOMAIN tree THEN treebuilder
    ELSE LET gitmodules == tree[".gitmodules"]
             gitmodules_ini ==
                 ini_delete(ini_read(gitmodules.id.blob),
                            section(submodule_path[Len(submodule_path)]))
         IN  IF gitmodules_ini # <<>>
             THEN tb_insert(treebuilder, ".gitmodules",
                            Entry(gitmodules.mode, Blob(gitmodules_ini)))
             ELSE tb_remove(treebuilder, ".gitmodules")

\* replace_tree_subdir building every directory below the root from nothing
RECURSIVE replace_tree_subdir_fresh(_, _, _, _)
replace_tree_subdir_fresh(treebuilder, tree, submodule_path, subtree_id) ==
    IF Tail(submodule_path) # <<>>
    THEN tb_insert(tb_remove(treebuilder, Head(submodule_path)), Head(submodule_path),
                   Entry(tree[Head(submodule_path)].mode,
                         replace_tree_subdir_fresh(EmptyTree, tree[Head(submodule_path)].id,
                                                   Tail(submodule_path), subtree_id)))
    ELSE tb_insert(tb_remove(treebuilder, Head(submodule_path)), Head(submodule_path),
                   Entry(MODE_TREE, subtree_id))

\* the tree written by replace_tree_subdir
RECURSIVE replace_tree_subdir(_, _, _, _)
replace_tree_subdir(treebuilder, tree, submodule_path, subtree_id) ==
    LET submodule_path_segment == Head(submodule_path)
        submodule_path_descendants == Tail(submodule_path)
        segment ==
            IF submodule_path_descendants # <<>>
            THEN LET subtree_entry == tree[submodule_path_segment]
                 IN  Entry(subtree_entry.mode,
                           replace_tree_subdir(subtree_entry.id, subtree_entry.id,
                                               submodule_path_descendants, subtree_id))
            ELSE Entry(MODE_TREE, subtree_id)
    IN  tb_insert(tb_remove(treebuilder, submodule_path_segment),
                  submodule_path_segment, segment)

replace_submodule_dir(tree, submodule_path, subtree_id) ==
    replace_tree_subdir(update_gitmodules(tree, tree, submodule_path),
                        tree, submodule_path, subtree_id)

(* -------------------------------- inputs ------------------------------- *)
\* what can be wrong with the environment of a run: a malformed commit id on
\* the command line, no repository, a dirty working directory, the
\* submodule not registered, its history not fetchable
Faults == {"bad_commit_id", "no_repo", "dirty", "unregistered", "unfetchable"}

\* how many of them are wrong at once
MaxFaults == 2

\* --mapping and --default-mapping of the command line: nothing, one
\* explicit mapping, a default mapping, or both
Argv ==
    {[mapping |-> m, default |-> {}] : m \in {EmptyMap, Sub2 :> Sub1, SubX :> Sub1}}
      \cup {[mapping |-> EmptyMap, default |-> {d}] : d \in {Sub1, SubX}}
      \cup {[mapping |-> SubX :> Sub2, default |-> {Sub1}]}
      \cup {[mapping |-> SubX :> Sub0, default |-> {}]}

(* --------------------------------- state ------------------------------- *)
VARIABLES
    pc,                  \* the step real_main is about to run, or "done"
    exit_code,           \* the status the process exited with, or RUNNING
    steps,               \* the steps that have started, in order
    faults,              \* what is wrong with the environment
    argv,                \* the command line
    submodule_dir,       \* SUBMODULE_DIR, as path segments
    mappings,            \* real_main's mappings
    default_mapping,     \* real_main's default_mapping, a set of at most one id
    old_id_to_new,       \* real_main's old_id_to_new
    revwalk,             \* the commits the running Revwalk has yet to yield
    branch_iter,         \* the branches the running branch iterator has yet to yield
    dangling_references, \* the set find_dangling_references_to_submodule fills
    branches,            \* refs/heads: branch name -> commit
    head,                \* HEAD: [ref |-> branch] or, detached, [oid |-> commit]
    odb,                 \* the objects of the parent's object database
    index,               \* the tree the parent's index holds
    dotgit,              \* whether <submodule_dir>/.git is in the working tree
    branches0,           \* refs/heads when the run started
    other_refs           \* the refs outside refs/heads: ref name -> commit

vars == <<pc, exit_code, steps, faults, argv, submodule_dir, mappings,
          default_mapping, old_id_to_new, revwalk, branch_iter,
          dangling_references, branches, head, odb, index, dotgit, branches0, other_refs>>

\* the local branches of the parent repository; HEAD is on master
BranchNames == {"master", "topic"}

\* Repository::head().target()
head_target(hd, brs) == IF "ref" \in DOMAIN hd THEN brs[hd.ref] ELSE hd.oid

\* a tag, a remote-tracking branch and a notes ref
OtherRefNames == {"refs/tags/v1", "refs/remotes/origin/master", "refs/notes/commits"}

\* the run starts: the parent repository holds the history, its branches
\* are at tips and HEAD is hd
Start(dir, history, tips, hd, a, f) ==
    LET refs == [b \in BranchNames |-> history[tips[b]]]
    IN  /\ pc = "parse_cli_arguments"
        /\ exit_code = RUNNING
        /\ steps = <<>>
        /\ faults = f
        /\ argv = a
        /\ submodule_dir = dir
        /\ mappings = EmptyMap
        /\ default_mapping = {}
        /\ old_id_to_new = EmptyMap
        /\ revwalk = {}
        /\ branch_iter = {}
        /\ dangling_references = {}
        /\ branches = refs
        /\ head = hd
        /\ odb = CommitObjects(Ancestors({refs[b] : b \in BranchNames}
                                         \cup {head_target(hd, refs)}))
        /\ index = head_target(hd, refs).tree
        /\ dotgit = TRUE
        /\ branches0 = refs
        /\ other_refs = [r \in OtherRefNames |->
                            IF r = "refs/remotes/origin/master" THEN refs["master"]
                            ELSE refs["topic"]]

\* every history in a sound environment
InitSound ==
    \E dir \in SubmoduleDirs, shape \in Shapes, kinds \in [1..NumCommits -> Kinds],
       tips \in [BranchNames -> 1..NumCommits], a \in Argv :
      /\ tips["master"] = NumCommits
      /\ Start(dir, History(dir, shape, kinds, NumCommits), tips,
               [ref |-> "master"], a, {})

\* the histories whose commits all have the same entry at the submodule's
\* path, in every environment with something wrong
InitFaulty ==
    \E dir \in SubmoduleDirs, shape \in Shapes, k \in Kinds,
       tips \in [BranchNames -> 1..NumCommits], a \in Argv,
       f \in {x \in SUBSET Faults : 1 <= Cardinality(x) /\ Cardinality(x) <= MaxFaults} :
      /\ tips["master"] = NumCommits
      /\ Start(dir, History(dir, shape, [n \in 1..NumCommits |-> k], NumCommits),
               tips, [ref |-> "master"], a, f)

\* a history without merges
Chain == [n \in 1..NumCommits |-> IF n = 1 THEN <<>> ELSE <<n - 1>>]

\* the command lines without explicit mappings
ArgvPlain == {a \in Argv : a.mapping = EmptyMap /\ a.default \subseteq {Sub1}}

\* the histories without merges, with HEAD detached at one of the commits
InitDetached ==
    \E dir \in SubmoduleDirs, kinds \in [1..NumCommits -> Kinds],
       tips \in [BranchNames -> 1..NumCommits], h \in 1..NumCommits, a \in ArgvPlain :
      LET history == History(dir, Chain, kinds, NumCommits)
      IN  /\ tips["master"] = NumCommits
          /\ Start(dir, history, tips, [oid |-> history[h]], a, {})

\* a submodule in a subdirectory of the parent's tree
NestedDirs == {<<"lib", "sub">>}

\* the histories without merges whose submodule is in a subdirectory
InitNested ==
    \E dir \in NestedDirs, kinds \in [1..NumCommits -> Kinds],
       tips \in [BranchNames -> 1..NumCommits], a \in ArgvPlain :
      /\ tips["master"] = NumCommits
      /\ Start(dir, History(dir, Chain, kinds, NumCommits), tips,
               [ref |-> "master"], a, {})

Init == InitSound \/ InitFaulty \/ InitDetached \/ InitNested

(* ------------------------------- revwalks ------------------------------ *)
\* Submodule::head_id: the gitlink at the submodule's path in the tree of the
\* parent's HEAD, as a set of at most one id
submodule_head(hd, brs, dir) ==
    {e.id : e \in {x \in get_path(head_target(hd, brs).tree, dir) : x.mode = MODE_GITLINK}}

\* the commits get_submodule_revwalk yields
get_submodule_revwalk(hd, brs, dir) ==
    Ancestors(submodule_head(hd, brs, dir) \cup SubmoduleTips)

\* the commits get_repo_revwalk yields
get_repo_revwalk(hd, brs) ==
    Ancestors({head_target(hd, brs)} \cup {brs[b] : b \in DOMAIN brs})

\* Sort::REVERSE | Sort::TOPOLOGICAL: a commit is yielded after its parents
CanYield(commit, walk) == commit \in walk /\ Range(commit.parents) \cap walk = {}

\* an iterator over every reference of the repository
all_references(brs, others) == DOMAIN brs \cup DOMAIN others

\* Repository::branches(Some(BranchType::Local)): the names the iterator yields
local_branches(brs, others) == DOMAIN brs

\* a loop over a walk ends by itself, after the walk has yielded its last item
walk_done_early(walk, item) == TRUE

\* for maybe_oid in revwalk: whether item is the last one the walk yields
walk_done(walk, item) == walk = {item}

(* ------------------------------ real_main ------------------------------ *)
Orchestration ==
    <<"parse_cli_arguments", "open", "is_workdir_clean", "does_submodule_exist",
      "fetch_submodule_history", "are_mappings_valid", "rewrite_submodule_history",
      "find_dangling_references_to_submodule", "rewrite_repo_history",
      "retarget_branches", "remove_dotgit_from_submodule", "update_index">>

\* real_main with the two checks of the working tree in the other order
step_after_submodule_first(step) ==
    IF step = "open" THEN "does_submodule_exist"
    ELSE IF step = "does_submodule_exist" THEN "is_workdir_clean"
    ELSE IF step = "is_workdir_clean" THEN "fetch_submodule_history"
    ELSE LET i == CHOOSE n \in 1..Len(Orchestration) : Orchestration[n] = step
         IN  IF i = Len(Orchestration) THEN "done" ELSE Orchestration[i + 1]

\* real_main validating the mappings before it fetches the submodule
step_after_validate_first(step) ==
    IF step = "does_submodule_exist" THEN "are_mappings_valid"
    ELSE IF step = "are_mappings_valid" THEN "fetch_submodule_history"
    ELSE IF step = "fetch_submodule_history" THEN "rewrite_submodule_history"
    ELSE LET i == CHOOSE n \in 1..Len(Orchestration) : Orchestration[n] = step
         IN  IF i = Len(Orchestration) THEN "done" ELSE Orchestration[i + 1]

\* the step real_main runs after step
step_after(step) ==
    LET i == CHOOSE n \in 1..Len(Orchestration) : Orchestration[n] = step
    IN  IF i = Len(Orchestration) THEN "done" ELSE Orchestration[i + 1]

Started(step) == IF steps # <<>> /\ steps[Len(steps)] = step THEN steps ELSE Append(steps, step)

\* the step at pc went through: real_main moves on to the next one
Proceed ==
    LET next == step_after(pc)
    IN  /\ pc' = next
        /\ steps' = Started(pc)
        /\ exit_code' = IF next = "done" THEN E_SUCCESS ELSE RUNNING
        /\ revwalk' = IF next = "rewrite_submodule_history"
                      THEN get_submodule_revwalk(head, branches, submodule_dir)
                      ELSE IF next = "rewrite_repo_history"
                      THEN get_repo_revwalk(head, branches)
                      ELSE {}
        /\ branch_iter' = IF next = "retarget_branches"
                          THEN local_branches(branches, other_refs)
                          ELSE {}

\* the step at pc goes on with the rest of its loop
Continue(walk, iter) ==
    /\ pc' = pc
    /\ steps' = Started(pc)
    /\ exit_code' = RUNNING
    /\ revwalk' = walk
    /\ branch_iter' = iter

\* the process exits with code at the step at pc
Exit(code) ==
    /\ pc' = "done"
    /\ steps' = Started(pc)
    /\ exit_code' = code
    /\ revwalk' = {}
    /\ branch_iter' = {}

Check(ok, code) == IF ok THEN Proceed ELSE Exit(code)

parse_cli_arguments ==
    /\ pc = "parse_cli_arguments"
    /\ Check("bad_commit_id" \notin faults, E_INVALID_COMMIT_ID)
    /\ mappings' = IF "bad_commit_id" \in faults THEN mappings ELSE argv.mapping
    /\ default_mapping' = IF "bad_commit_id" \in faults THEN default_mapping ELSE argv.default
    /\ UNCHANGED <<faults, argv, submodule_dir, old_id_to_new, dangling_references,
                   branches, head, odb, index, dotgit, branches0, other_refs>>

open ==
    /\ pc = "open"
    /\ Check("no_repo" \notin faults, E_NO_GIT_REPO)
    /\ UNCHANGED <<faults, argv, submodule_dir, mappings, default_mapping,
                   old_id_to_new, dangling_references, branches, head, odb, index,
                   dotgit, branches0, other_refs>>

is_workdir_clean ==
    /\ pc = "is_workdir_clean"
    /\ Check("dirty" \notin faults, E_DIRTY_WORKDIR)
    /\ UNCHANGED <<faults, argv, submodule_dir, mappings, default_mapping,
                   old_id_to_new, dangling_references, branches, head, odb, index,
                   dotgit, branches0, other_refs>>

does_submodule_exist ==
    /\ pc = "does_submodule_exist"
    /\ Check("unregistered" \notin faults, E_SUBMODULE_NOT_FOUND)
    /\ UNCHANGED <<faults, argv, submodule_dir, mappings, default_mapping,
                   old_id_to_new, dangling_references, branches, head, odb, index,
                   dotgit, branches0, other_refs>>

\* the objects Remote::fetch copies from the submodule's repository
fetched(hd, brs, dir) == CommitObjects(get_submodule_revwalk(hd, brs, dir))

fetch_submodule_history ==
    /\ pc = "fetch_submodule_history"
    /\ Check("unfetchable" \notin faults, E_SUBMODULE_FETCH_FAILED)
    /\ odb' = IF "unfetchable" \in faults THEN odb
              ELSE odb \cup fetched(head, branches, submodule_dir)
    /\ UNCHANGED <<faults, argv, submodule_dir, mappings, default_mapping,
                   old_id_to_new, dangling_references, branches, head, index,
                   dotgit, branches0, other_refs>>

\* the mapped-to commits that are_mappings_valid does not find in walk
missing_from_history(maps, default, walk) ==
    ({maps[k] : k \in DOMAIN maps} \cup default) \ walk

are_mappings_valid ==
    /\ pc = "are_mappings_valid"
    /\ IF submodule_head(head, branches, submodule_dir) = {}
       THEN Exit(E_PANIC)
       ELSE Check(missing_from_history(mappings, default_mapping,
                      get_submodule_revwalk(head, branches, submodule_dir)) = {},
                  E_INVALID_MAPPINGS)
    /\ UNCHANGED <<faults, argv, submodule_dir, mappings, default_mapping,
                   old_id_to_new, dangling_references, branches, head, odb, index,
                   dotgit, branches0, other_refs>>

(* ----------------------- rewrite_submodule_history --------------------- *)
\* old_id_to_new[&parent_id] for every parent: the set holding the list of
\* rewritten parents, empty when an id is not in the map (the index panics)
indexed_parents(commit, map) ==
    IF Range(commit.parents) \subseteq DOMAIN map
    THEN {MapSeq(map, commit.parents)}
    ELSE {}

\* the rewritten commit with its parents in the opposite order
rewritten_submodule_commit_reversed(commit, tree_id, parents) ==
    [tree |-> tree_id,
     parents |-> [i \in 1..Len(parents) |-> parents[Len(parents) + 1 - i]],
     author |-> commit.author, committer |-> commit.committer,
     message |-> commit.message]

\* the commit rewrite_submodule_history writes for a submodule commit
rewritten_submodule_commit(commit, tree_id, parents) ==
    Commit(tree_id, parents, commit.author, commit.committer, commit.message)

rewrite_submodule_history ==
    /\ pc = "rewrite_submodule_history"
    /\ \E oid \in revwalk :
         /\ CanYield(oid, revwalk)
         /\ LET tree_id == relocate(oid.tree, submodule_dir)
                map == insert(old_id_to_new, oid.tree, tree_id)
                parents == indexed_parents(oid, map)
            IN  IF parents = {}
                THEN /\ Exit(E_PANIC)
                     /\ old_id_to_new' = map
                     /\ odb' = odb \cup TreeObjects(tree_id)
                ELSE LET new_commit_id ==
                             rewritten_submodule_commit(oid, tree_id,
                                 CHOOSE p \in parents : TRUE)
                     IN  /\ IF walk_done(revwalk, oid) THEN Proceed
                            ELSE Continue(revwalk \ {oid}, {})
                         /\ old_id_to_new' = insert(map, oid, new_commit_id)
                         /\ odb' = odb \cup TreeObjects(tree_id) \cup {new_commit_id}
    /\ UNCHANGED <<faults, argv, submodule_dir, mappings, default_mapping,
                   dangling_references, branches, head, index, dotgit, branches0, other_refs>>

(* ----------------- find_dangling_references_to_submodule --------------- *)
\* the target of the gitlink at path in the commit's tree, as a set of at
\* most one id: empty when the entry is missing or is not a gitlink
gitlink_at(commit, path) ==
    {e.id : e \in {x \in get_path(commit.tree, path) : x.mode = MODE_GITLINK}}

\* the audit without its look at the explicit mappings
is_dangling_ignoring_mappings(submodule_commit_id, known_submodule_commits, maps, default) ==
    /\ submodule_commit_id \notin known_submodule_commits
    /\ default = {}

\* whether find_dangling_references_to_submodule records the gitlink target
is_dangling(submodule_commit_id, known_submodule_commits, maps, default) ==
    /\ submodule_commit_id \notin known_submodule_commits
    /\ submodule_commit_id \notin DOMAIN maps
    /\ default = {}

find_dangling_references_to_submodule ==
    /\ pc = "find_dangling_references_to_submodule"
    /\ LET found ==
               {s \in UNION {gitlink_at(c, submodule_dir) :
                                c \in get_repo_revwalk(head, branches)} :
                   is_dangling(s, DOMAIN old_id_to_new, mappings, default_mapping)}
       IN  /\ dangling_references' = found
           /\ Check(found = {}, E_FOUND_DANGLING_REFERENCES)
    /\ UNCHANGED <<faults, argv, submodule_dir, mappings, default_mapping,
                   old_id_to_new, branches, head, odb, index, dotgit, branches0, other_refs>>

(* ------------------------- rewrite_repo_history ------------------------ *)
\* the gitlink target after the explicit mappings
mapped_commit_id(submodule_commit_id, maps) ==
    IF submodule_commit_id \in DOMAIN maps THEN maps[submodule_commit_id]
    ELSE submodule_commit_id

\* the lookup that prefers the rewritten target itself to its explicit mapping
new_submodule_commit_id_known_first(submodule_commit_id, map, maps, default) ==
    IF submodule_commit_id \in DOMAIN map THEN {map[submodule_commit_id]}
    ELSE IF submodule_commit_id \in DOMAIN maps /\ maps[submodule_commit_id] \in DOMAIN map
    THEN {map[maps[submodule_commit_id]]}
    ELSE {map[mapped] : mapped \in default \cap DOMAIN map}

\* new_submodule_commit_id: the rewritten submodule commit a gitlink target
\* stands for, as a set of at most one id; empty when default_mapping.expect
\* or the index old_id_to_new[&mapped] panics
new_submodule_commit_id(submodule_commit_id, map, maps, default) ==
    LET id == mapped_commit_id(submodule_commit_id, maps)
    IN  IF id \in DOMAIN map THEN {map[id]}
        ELSE {map[mapped] : mapped \in default \cap DOMAIN map}

\* subtree_id: the id of the entry at the submodule's path in the tree of
\* the rewritten submodule commit; empty when find_commit or get_path fails
subtree_of(submodule_commit, path) ==
    IF IsCommit(submodule_commit)
    THEN {e.id : e \in get_path(submodule_commit.tree, path)}
    ELSE {}

parent_subtree_ids(commit, path) ==
    {e.id : e \in UNION {get_path(parent.tree, path) : parent \in Range(commit.parents)}}

\* update detection on the gitlink target after the explicit mappings
submodule_updated_mapped(commit, submodule_commit_id, path) ==
    (IF submodule_commit_id \in DOMAIN mappings THEN mappings[submodule_commit_id]
     ELSE submodule_commit_id) \notin parent_subtree_ids(commit, path)

submodule_updated(commit, submodule_commit_id, path) ==
    submodule_commit_id \notin parent_subtree_ids(commit, path)

\* the parents that old_id_to_new.get finds, rewritten
RECURSIVE actual_parents(_, _)
actual_parents(parent_ids, map) ==
    IF parent_ids = <<>> THEN <<>>
    ELSE (IF Head(parent_ids) \in DOMAIN map THEN <<map[Head(parent_ids)]>> ELSE <<>>)
            \o actual_parents(Tail(parent_ids), map)

\* the parents of the commit rewrite_repo_history writes
new_parents(commit, map, updated, submodule_commit) ==
    actual_parents(commit.parents, map)
        \o (IF updated THEN <<submodule_commit>> ELSE <<>>)

\* the commit rewrite_repo_history writes for a commit with a gitlink
rewritten_repo_commit(commit, map, submodule_commit_id, submodule_commit, subtree_id, path) ==
    Commit(replace_submodule_dir(commit.tree, path, subtree_id),
           new_parents(commit, map,
                       submodule_updated(commit, submodule_commit_id, path),
                       submodule_commit),
           commit.author, commit.committer, commit.message)

\* what the match on tree.get_path(submodule_path) does with a commit
entry_case(commit, path) ==
    IF get_path(commit.tree, path) = {} THEN "identity"
    ELSE IF gitlink_at(commit, path) = {} THEN "skip"
    ELSE "rewrite"

rewrite_repo_history ==
    /\ pc = "rewrite_repo_history"
    /\ \E oid \in revwalk :
         /\ CanYield(oid, revwalk)
         /\ LET finish == IF walk_done(revwalk, oid) THEN Proceed
                          ELSE Continue(revwalk \ {oid}, {})
                case == entry_case(oid, submodule_dir)
            IN  IF case = "identity"
                THEN /\ finish
                     /\ old_id_to_new' = insert(old_id_to_new, oid, oid)
                     /\ odb' = odb
                ELSE IF case = "skip"
                THEN /\ finish
                     /\ UNCHANGED <<old_id_to_new, odb>>
                ELSE LET s == CHOOSE x \in gitlink_at(oid, submodule_dir) : TRUE
                         found == new_submodule_commit_id(s, old_id_to_new, mappings,
                                                          default_mapping)
                         subtrees == UNION {subtree_of(c, submodule_dir) : c \in found}
                     IN  IF subtrees = {}
                         THEN /\ Exit(E_PANIC)
                              /\ UNCHANGED <<old_id_to_new, odb>>
                         ELSE LET new_commit_id ==
                                      rewritten_repo_commit(oid, old_id_to_new, s,
                                          CHOOSE c \in found : TRUE,
                                          CHOOSE t \in subtrees : TRUE, submodule_dir)
                              IN  /\ finish
                                  /\ old_id_to_new' = insert(old_id_to_new, oid, new_commit_id)
                                  /\ odb' = odb \cup TreeObjects(new_commit_id.tree)
                                                \cup {new_commit_id}
    /\ UNCHANGED <<faults, argv, submodule_dir, mappings, default_mapping,
                   dangling_references, branches, head, index, dotgit, branches0, other_refs>>

\* the branch loop that ends rewrite_repo_history
retarget_branches ==
    /\ pc = "retarget_branches"
    /\ \E b \in branch_iter :
         LET id == IF b \in DOMAIN branches THEN branches[b] ELSE other_refs[b]
         IN  IF id \notin DOMAIN old_id_to_new
             THEN /\ Exit(E_PANIC)
                  /\ UNCHANGED <<branches, other_refs>>
             ELSE /\ IF walk_done(branch_iter, b) THEN Proceed
                     ELSE Continue({}, branch_iter \ {b})
                  /\ branches' = IF b \in DOMAIN branches
                                 THEN [branches EXCEPT ![b] = old_id_to_new[id]]
                                 ELSE branches
                  /\ other_refs' = IF b \in DOMAIN branches THEN other_refs
                                   ELSE [other_refs EXCEPT ![b] = old_id_to_new[id]]
    /\ UNCHANGED <<faults, argv, submodule_dir, mappings, default_mapping,
                   old_id_to_new, dangling_references, head, odb, index, dotgit,
                   branches0>>

(* ------------------------------ the ending ----------------------------- *)
remove_dotgit_from_submodule ==
    /\ pc = "remove_dotgit_from_submodule"
    /\ Proceed
    /\ dotgit' = FALSE
    /\ UNCHANGED <<faults, argv, submodule_dir, mappings, default_mapping,
                   old_id_to_new, dangling_references, branches, head, odb, index,
                   branches0, other_refs>>

\* the commit whose tree update_index reads into the index
updated_id(head_id, map) == IF head_id \in DOMAIN map THEN map[head_id] ELSE head_id

update_index ==
    /\ pc = "update_index"
    /\ Proceed
    /\ index' = updated_id(head_target(head, branches), old_id_to_new).tree
    /\ UNCHANGED <<faults, argv, submodule_dir, mappings, default_mapping,
                   old_id_to_new, dangling_references, branches, head, odb, dotgit,
                   branches0, other_refs>>

Next ==
    \/ parse_cli_arguments
    \/ open
    \/ is_workdir_clean
    \/ does_submodule_exist
    \/ fetch_submodule_history
    \/ are_mappings_valid
    \/ rewrite_submodule_history
    \/ find_dangling_references_to_submodule
    \/ rewrite_repo_history
    \/ retarget_branches
    \/ remove_dotgit_from_submodule
    \/ update_index

Spec == Init /\ [][Next]_vars

(* ------------------------------ properties ----------------------------- *)
\* the parent walk and the submodule walk of the run
RepoWalk0 == get_repo_revwalk(head, branches0)

SubWalk0 == get_submodule_revwalk(head, branches0, submodule_dir)

HasStarted(step) == step \in Range(steps)

\* the commit loop of rewrite_repo_history has gone through the parent walk
ParentsRewritten == pc = "retarget_branches" \/ HasStarted("retarget_branches")

\* the commits of the parent walk that carry the gitlink and have been rewritten
Rewritten ==
    {c \in RepoWalk0 \cap DOMAIN old_id_to_new : gitlink_at(c, submodule_dir) # {}}

\* the rewritten commits of the submodule's history
RewrittenSub == {old_id_to_new[k] : k \in SubWalk0 \cap DOMAIN old_id_to_new}

TargetOf(c) == CHOOSE s \in gitlink_at(c, submodule_dir) : TRUE

\* the ids of the entries that the parents of c have at the submodule's path
ParentStates(c) ==
    {e.id : e \in UNION {get_path(p.tree, submodule_dir) : p \in Range(c.parents)}}

\* the positions of rewritten submodule commits among parents
Grafts(parents) == {i \in 1..Len(parents) : parents[i] \in RewrittenSub}

\* C1: after a run that exits with success no commit reachable from a local
\* branch has a gitlink at the submodule's path.
C1_NoGitlinkReachable ==
    exit_code = E_SUCCESS =>
        \A c \in Ancestors({branches[b] : b \in BranchNames}) :
            \A e \in get_path(c.tree, submodule_dir) : e.mode # MODE_GITLINK

\* C2: once the run has reached the retargeting of the branches and has
\* ended, every branch is at the image under old_id_to_new of its original
\* tip, whatever that tip has at the submodule's path.
C2_BranchesRetargeted ==
    (pc = "done" /\ HasStarted("retarget_branches")) =>
        \A b \in BranchNames :
            /\ branches0[b] \in DOMAIN old_id_to_new
            /\ branches[b] = old_id_to_new[branches0[b]]

\* C3: a rewritten parent commit has the rewritten submodule commit as a
\* parent iff its original gitlink target is not the entry of any of its
\* parents at the submodule's path; it is then one parent, the last one.
C3_UpdateDetection ==
    \A c \in Rewritten :
        LET new == old_id_to_new[c].parents
        IN  IF TargetOf(c) \notin ParentStates(c)
            THEN Grafts(new) = {Len(new)}
            ELSE Grafts(new) = {}

\* a merge whose gitlink is that of one of its parents was rewritten without
\* an extra parent, and a commit whose gitlink target is explicitly mapped
\* to the gitlink target of its parent was rewritten with one
C3_Witness ==
    /\ \E c \in Rewritten :
         /\ Len(c.parents) = 2
         /\ TargetOf(c) \in ParentStates(c)
         /\ Len(old_id_to_new[c].parents) = 2
    /\ \E c \in Rewritten :
         /\ TargetOf(c) \in DOMAIN mappings
         /\ mappings[TargetOf(c)] \in ParentStates(c)
         /\ Grafts(old_id_to_new[c].parents) # {}

\* C4: the parents of a rewritten parent commit start with the images under
\* old_id_to_new of all the original parents, in their order.
C4_BaseParents ==
    \A c \in Rewritten :
        LET new == old_id_to_new[c].parents
        IN  /\ Len(new) >= Len(c.parents)
            /\ \A i \in 1..Len(c.parents) :
                 /\ c.parents[i] \in DOMAIN old_id_to_new
                 /\ new[i] = old_id_to_new[c.parents[i]]

\* C5: after the commit loop of rewrite_repo_history every commit of the
\* parent walk without a gitlink at the submodule's path (no entry, or an
\* entry of another mode) is mapped to itself.
C5_IdentityMapping ==
    ParentsRewritten =>
        \A c \in RepoWalk0 :
            gitlink_at(c, submodule_dir) = {} =>
                c \in DOMAIN old_id_to_new /\ old_id_to_new[c] = c

\* the rewritten submodule commit that the gitlink target s stands for:
\* the explicit mapping first, then old_id_to_new, then the default
Resolved(s) ==
    LET t == IF s \in DOMAIN mappings THEN mappings[s] ELSE s
    IN  IF t \in DOMAIN old_id_to_new THEN {old_id_to_new[t]}
        ELSE {old_id_to_new[d] : d \in default_mapping \cap DOMAIN old_id_to_new}

\* C6: a rewritten parent commit has at the submodule's path the subtree that
\* the resolved rewritten submodule commit has there, and when it updates
\* the submodule that same commit is its last parent.
C6_GitlinkResolution ==
    \A c \in Rewritten :
        LET new == old_id_to_new[c]
        IN  /\ Resolved(TargetOf(c)) # {}
            /\ \A r \in Resolved(TargetOf(c)) :
                 /\ get_path(r.tree, submodule_dir) # {}
                 /\ get_path(new.tree, submodule_dir) =
                        {Entry(MODE_TREE, e.id) : e \in get_path(r.tree, submodule_dir)}
                 /\ TargetOf(c) \notin ParentStates(c) =>
                        /\ new.parents # <<>>
                        /\ new.parents[Len(new.parents)] = r
                        /\ get_path(new.parents[Len(new.parents)].tree, submodule_dir)
                               = get_path(new.tree, submodule_dir)

\* a rewritten update whose gitlink target is in the submodule's history and
\* is also explicitly mapped to another commit
C6_Witness ==
    \E c \in Rewritten :
        /\ TargetOf(c) \in DOMAIN mappings
        /\ TargetOf(c) \in SubWalk0
        /\ mappings[TargetOf(c)] # TargetOf(c)
        /\ TargetOf(c) \notin ParentStates(c)

\* the gitlink targets of the parent walk that nothing resolves
Unresolvable ==
    {s \in UNION {gitlink_at(c, submodule_dir) : c \in RepoWalk0} :
        /\ s \notin SubWalk0
        /\ s \notin DOMAIN mappings
        /\ default_mapping = {}}

\* C7: the audit finds exactly the unresolvable gitlink targets; the run
\* exits with 2 iff there is one, and then the parent rewriter has not
\* started; with a default mapping there is none.
C7_DanglingAudit ==
    /\ HasStarted("find_dangling_references_to_submodule") =>
         /\ dangling_references = Unresolvable
         /\ (exit_code = E_FOUND_DANGLING_REFERENCES) = (Unresolvable # {})
         /\ default_mapping # {} => dangling_references = {}
    /\ exit_code = E_FOUND_DANGLING_REFERENCES =>
         /\ HasStarted("find_dangling_references_to_submodule")
         /\ ~HasStarted("rewrite_repo_history")
         /\ RepoWalk0 \cap DOMAIN old_id_to_new = {}

\* the audit has stopped a run whose history also has a gitlink to a commit
\* outside the submodule's history that an explicit mapping resolves
C7_Witness ==
    /\ exit_code = E_FOUND_DANGLING_REFERENCES
    /\ dangling_references # {}
    /\ \E c \in RepoWalk0 :
         gitlink_at(c, submodule_dir) # {} /\ TargetOf(c) \notin dangling_references

C7_WitnessMapped ==
    /\ HasStarted("find_dangling_references_to_submodule")
    /\ dangling_references = {}
    /\ \E c \in RepoWalk0 :
         /\ gitlink_at(c, submodule_dir) # {}
         /\ TargetOf(c) \notin SubWalk0
         /\ TargetOf(c) \in DOMAIN mappings

\* C8: a branch differs from its original only after the commit loop of
\* rewrite_repo_history has gone through the whole parent walk, and every
\* branch is always at a commit of the object database.
C8_DeferredRefMotion ==
    /\ branches # branches0 =>
         /\ HasStarted("retarget_branches")
         /\ \A c \in RepoWalk0 :
              c \in DOMAIN old_id_to_new \/ entry_case(c, submodule_dir) = "skip"
    /\ \A b \in BranchNames : branches[b] \in odb /\ IsCommit(branches[b])

\* the run panicked in the branch loop after it had moved a branch
C8_Witness ==
    /\ exit_code = E_PANIC
    /\ HasStarted("retarget_branches")
    /\ branches # branches0

\* the order of the steps and the exit code of each
ClaimedOrder ==
    <<"parse_cli_arguments", "open", "is_workdir_clean", "does_submodule_exist",
      "fetch_submodule_history", "are_mappings_valid", "rewrite_submodule_history",
      "find_dangling_references_to_submodule", "rewrite_repo_history",
      "retarget_branches", "remove_dotgit_from_submodule", "update_index">>

\* the exit code of a run whose last step was the n-th, when that step is a
\* check that failed
FailureCode(n) ==
    IF n = 1 THEN 3 ELSE IF n = 2 THEN 1 ELSE IF n = 3 THEN 5 ELSE IF n = 4 THEN 7
    ELSE IF n = 5 THEN 6 ELSE IF n = 6 THEN 4 ELSE IF n = 8 THEN 2 ELSE E_PANIC

FaultOrder == <<"bad_commit_id", "no_repo", "dirty", "unregistered", "unfetchable">>

\* C9: the steps run in the fixed order; a failing check ends the run with
\* its own exit code, the first thing wrong with the environment decides it,
\* and the run exits with 0 only after all the steps.
C9_GatingOrder ==
    /\ steps = SubSeq(ClaimedOrder, 1, Len(steps))
    /\ (pc = "done") = (exit_code # RUNNING)
    /\ pc # "done" => pc = ClaimedOrder[Len(steps) + 1] \/ pc = ClaimedOrder[Len(steps)]
    /\ exit_code = E_SUCCESS => steps = ClaimedOrder
    /\ exit_code \notin {RUNNING, E_SUCCESS, E_PANIC} =>
         exit_code = FailureCode(Len(steps))
    /\ (pc = "done" /\ faults # {}) =>
         LET first == CHOOSE i \in 1..Len(FaultOrder) :
                          /\ FaultOrder[i] \in faults
                          /\ \A j \in 1..(i - 1) : FaultOrder[j] \notin faults
         IN  exit_code = FailureCode(first) /\ Len(steps) = first

\* a dirty working directory with an unregistered submodule: exit code 5
C9_Witness ==
    /\ faults = {"dirty", "unregistered"}
    /\ exit_code = E_DIRTY_WORKDIR

\* the object database, the index and the working tree before the run
Odb0 == CommitObjects(RepoWalk0)

Index0 == head_target(head, branches0).tree

NothingWritten ==
    /\ odb = Odb0
    /\ branches = branches0
    /\ index = Index0
    /\ dotgit

\* C10 as claimed: a run that fails in one of the steps 1-6 has written nothing.
C10_NothingWritten ==
    exit_code \in {E_INVALID_COMMIT_ID, E_NO_GIT_REPO, E_DIRTY_WORKDIR,
                   E_SUBMODULE_NOT_FOUND, E_SUBMODULE_FETCH_FAILED, E_INVALID_MAPPINGS}
        => NothingWritten

\* C10 as amended: a run that fails in one of the steps 1-4 has written
\* nothing; a run that fails in step 5 or 6 has left the branches, the index
\* and the working tree alone and has added to the object database nothing
\* but objects of the submodule's history, and after a failed validation of
\* the mappings the objects of the submodule's history are in it.
C10_NothingWrittenButFetched ==
    /\ exit_code \in {E_INVALID_COMMIT_ID, E_NO_GIT_REPO, E_DIRTY_WORKDIR,
                      E_SUBMODULE_NOT_FOUND} => NothingWritten
    /\ exit_code \in {E_SUBMODULE_FETCH_FAILED, E_INVALID_MAPPINGS} =>
         /\ branches = branches0
         /\ index = Index0
         /\ dotgit
         /\ old_id_to_new = EmptyMap
         /\ Odb0 \subseteq odb
         /\ odb \ Odb0 \subseteq CommitObjects(SubWalk0)
    /\ exit_code = E_INVALID_MAPPINGS => CommitObjects(SubWalk0) \subseteq odb

\* the validation of the mappings failed and the object database has grown
C10_Witness ==
    /\ exit_code = E_INVALID_MAPPINGS
    /\ odb # Odb0

(* ------------------------ the submodule's history ---------------------- *)
\* the commits of the submodule walk that have been rewritten
SubDone == SubWalk0 \cap DOMAIN old_id_to_new

\* the rewritten commit has the rewritten parents in their order, and the
\* author, committer and message of the original
SubCommitPreserved(c) ==
    LET new == old_id_to_new[c]
    IN  /\ Range(c.parents) \subseteq DOMAIN old_id_to_new
        /\ Len(new.parents) = Len(c.parents)
        /\ \A i \in 1..Len(c.parents) : new.parents[i] = old_id_to_new[c.parents[i]]
        /\ new.author = c.author
        /\ new.committer = c.committer
        /\ new.message = c.message

\* C11 as claimed: on the commits of the submodule walk old_id_to_new is
\* injective, and every rewritten commit has the images of the original's
\* parents in their order and its author, committer and message.
C11_SubHistoryIsomorphic ==
    /\ \A c, d \in SubDone : old_id_to_new[c] = old_id_to_new[d] => c = d
    /\ \A c \in SubDone : SubCommitPreserved(c)

\* C11 as amended: every rewritten commit has the images of the original's
\* parents in their order and its author, committer and message, and two
\* commits of the walk have the same image only if they have the same tree,
\* author, committer and message and parents with the same images: they
\* differ at most in a header that the rewriter does not copy.
C11_SubHistoryPreserved ==
    /\ \A c, d \in SubDone :
         old_id_to_new[c] = old_id_to_new[d] =>
            /\ c.tree = d.tree
            /\ c.author = d.author /\ c.committer = d.committer
            /\ c.message = d.message
            /\ Len(c.parents) = Len(d.parents)
            /\ \A i \in 1..Len(c.parents) :
                 old_id_to_new[c.parents[i]] = old_id_to_new[d.parents[i]]
    /\ \A c \in SubDone : SubCommitPreserved(c)

\* a merge and its signed twin have both been rewritten, into one commit
C11_Witness ==
    \E c, d \in SubDone :
        /\ c # d
        /\ Len(c.parents) = 2 /\ c.parents[1] # c.parents[2]
        /\ old_id_to_new[c] = old_id_to_new[d]

(* ------------------------------ .gitmodules ---------------------------- *)
\* the section headers of the .gitmodules of a tree, in their order
SectionsOf(tree) ==
    IF ".gitmodules" \in DOMAIN tree
    THEN SelectSeq(tree[".gitmodules"].id.blob, LAMBDA l : SubSeq(l, 1, 10) = "submodule ")
    ELSE <<>>

\* the section of the submodule of the run
OwnSection == "submodule \"" \o submodule_dir[Len(submodule_dir)] \o "\""

\* C12: in a rewritten parent commit .gitmodules has lost the section of the
\* submodule and kept the other sections; the file is absent when no section
\* is left, it keeps its mode otherwise, and a tree without .gitmodules gets
\* none and changes at the root only in the entry on the submodule's path.
C12_GitmodulesEdited ==
    \A c \in Rewritten :
        LET old == c.tree
            new == old_id_to_new[c].tree
        IN  /\ OwnSection \notin Range(SectionsOf(new))
            /\ SectionsOf(new) = SelectSeq(SectionsOf(old), LAMBDA l : l # OwnSection)
            /\ (".gitmodules" \in DOMAIN new) = (SectionsOf(new) # <<>>)
            /\ ".gitmodules" \in DOMAIN new =>
                   new[".gitmodules"].mode = old[".gitmodules"].mode
            /\ ".gitmodules" \notin DOMAIN old =>
                   /\ DOMAIN new = DOMAIN old
                   /\ \A n \in DOMAIN old \ {Head(submodule_dir)} : new[n] = old[n]

\* three rewritten commits: one has lost its .gitmodules, one has kept it
\* with the other section, one never had any
C12_Witness ==
    /\ \E c \in Rewritten :
         ".gitmodules" \in DOMAIN c.tree /\ ".gitmodules" \notin DOMAIN old_id_to_new[c].tree
    /\ \E c \in Rewritten :
         /\ Len(SectionsOf(c.tree)) = 2
         /\ Len(SectionsOf(old_id_to_new[c].tree)) = 1
    /\ \E c \in Rewritten : ".gitmodules" \notin DOMAIN c.tree

(* ------------------------------- the frame ----------------------------- *)
\* C13: no step changes a ref outside refs/heads (tag, remote-tracking
\* branch, notes), and no step changes HEAD: a detached HEAD stays at its
\* commit.
C13_OtherRefsUntouched == [][other_refs' = other_refs /\ head' = head]_vars

\* the run has ended well with HEAD detached at a commit that was rewritten,
\* a tag at a commit that was rewritten and the branches moved
C13_Witness ==
    /\ exit_code = E_SUCCESS
    /\ "oid" \in DOMAIN head
    /\ head.oid \in Rewritten
    /\ other_refs["refs/tags/v1"] \in Rewritten
    /\ \A b \in BranchNames : branches[b] # branches0[b]

(* ------------------------ parents before children ---------------------- *)
\* C14: when the submodule rewriter or the parent rewriter is about to
\* process a commit, every parent of the commit has an entry in old_id_to_new.
C14_ParentsBeforeChildren ==
    pc \in {"rewrite_submodule_history", "rewrite_repo_history"} =>
        \A c \in revwalk :
            CanYield(c, revwalk) => Range(c.parents) \subseteq DOMAIN old_id_to_new

(* ----------------------------- relocated trees ------------------------- *)
\* C15: the tree recorded in old_id_to_new for the tree of a submodule commit
\* is not that tree.
C15_RelocatedTreesDiffer ==
    \A c \in SubWalk0 :
        c.tree \in DOMAIN old_id_to_new => old_id_to_new[c.tree] # c.tree

(* ------------------------------- the splice ---------------------------- *)
\* new is old with the entry at path replaced by the tree R: at every level
\* the other entries are those of old, a directory on the way keeps its mode
RECURSIVE Spliced(_, _, _, _)
Spliced(old, new, path, R) ==
    /\ DOMAIN new = DOMAIN old \cup {Head(path)}
    /\ \A n \in DOMAIN old \ {Head(path)} : new[n] = old[n]
    /\ IF Len(path) = 1
       THEN new[Head(path)] = [mode |-> 16384, id |-> R]
       ELSE /\ Head(path) \in DOMAIN old
            /\ new[Head(path)].mode = old[Head(path)].mode
            /\ Spliced(old[Head(path)].id, new[Head(path)].id, Tail(path), R)

\* a tree without its .gitmodules
WithoutGitmodules(tree) == [n \in (DOMAIN tree) \ {".gitmodules"} |-> tree[n]]

\* the subtree that the rewritten parent commit got at the submodule's path
SplicedIn(c) == (CHOOSE e \in get_path(old_id_to_new[c].tree, submodule_dir) : TRUE).id

\* C16: replace_tree_subdir changes the tree only on the path; the tree of a
\* rewritten parent commit is the original's but for the entry at the
\* submodule's path and the root .gitmodules.
C16_SpliceFrame ==
    \A c \in Rewritten :
        /\ get_path(old_id_to_new[c].tree, submodule_dir) # {}
        /\ Spliced(c.tree,
                   replace_tree_subdir(c.tree, c.tree, submodule_dir, SplicedIn(c)),
                   submodule_dir, SplicedIn(c))
        /\ Spliced(WithoutGitmodules(c.tree), WithoutGitmodules(old_id_to_new[c].tree),
                   submodule_dir, SplicedIn(c))

\* a commit with the submodule at a path of two segments has been rewritten:
\* its tree has other entries at the root and in the directory on the way
C16_Witness ==
    /\ Rewritten # {}
    /\ Len(submodule_dir) = 2
    /\ \E c \in Rewritten : "README" \in DOMAIN c.tree /\ "other" \in DOMAIN c.tree["lib"].id

(* ------------------------ the auditor is sufficient -------------------- *)
\* C17: a run whose mappings are valid and whose audit finds nothing does
\* not abort in the commit loop of the parent rewriter.
C17_AuditorSufficient ==
    ~ /\ exit_code = E_PANIC
      /\ steps # <<>>
      /\ steps[Len(steps)] = "rewrite_repo_history"

=============================================================================
